---------------------------- MODULE Spec2Model ----------------------------
(***************************************************************************)
(* Model of src/server.rs of the vanity-address generator: the grinding   *)
(* loop grind_with_result and the axum server that calls it from the      *)
(* /generate handler.                                                      *)
(*                                                                         *)
(* Texts (Rust String / &str) are sequences of UTF-8 byte values, keys     *)
(* and digests are sequences of 32 byte values, seeds are sequences of 16  *)
(* byte values.  Option<String> is a sequence of length 0 (None) or 1      *)
(* (Some(text)).                                                           *)
(***************************************************************************)
EXTENDS Integers, Sequences, FiniteSets, TLC

(***************************************************************************)
(* Bounds of the model.                                                    *)
(***************************************************************************)
\* Trials of one grind that are counted before the trial counter stops the model.
MaxTrials == 3
\* Number of distinct random streams thread_rng() can deliver to one trial.
NumStreams == 3
\* Number of classes of hash inputs the SHA-256 oracle tells apart.
NumBuckets == 3
\* Number of HTTP requests the server receives.
NumReqs == 2
\* Number of worker threads of the async runtime that polls the handlers.
NumWorkers == 1

(***************************************************************************)
(* Program constants.                                                      *)
(***************************************************************************)
\* [0u8; 16] and take(16): the seed length.
SEED_LEN == 16
\* [u8; 32]: the size of a digest and of a Pubkey.
PUBKEY_BYTES == 32
\* Alphanumeric keeps the top 6 bits of a u32 draw ...
RNG_VALUES == 64
\* ... and rejects the values that are not below 26 + 26 + 10.
RANGE == 62
\* The longest base58 text of a 32-byte key.
MAX_BASE58_LEN == 44

\* A mutant of GEN_ASCII_STR_CHARSET, with '+' where '9' belongs:
\* "ABCDEFGHIJKLMNOPQRSTUVWXYZabcdefghijklmnopqrstuvwxyz012345678+/"
GEN_ASCII_STR_CHARSET_Bad ==
    << 65, 66, 67, 68, 69, 70, 71, 72, 73, 74, 75, 76, 77, 78, 79, 80, 81, 82,
       83, 84, 85, 86, 87, 88, 89, 90, 97, 98, 99, 100, 101, 102, 103, 104, 105,
       106, 107, 108, 109, 110, 111, 112, 113, 114, 115, 116, 117, 118, 119,
       120, 121, 122, 48, 49, 50, 51, 52, 53, 54, 55, 56, 43, 47 >>

\* "ABCDEFGHIJKLMNOPQRSTUVWXYZabcdefghijklmnopqrstuvwxyz0123456789"
GEN_ASCII_STR_CHARSET ==
    << 65, 66, 67, 68, 69, 70, 71, 72, 73, 74, 75, 76, 77, 78, 79, 80, 81, 82,
       83, 84, 85, 86, 87, 88, 89, 90, 97, 98, 99, 100, 101, 102, 103, 104, 105,
       106, 107, 108, 109, 110, 111, 112, 113, 114, 115, 116, 117, 118, 119,
       120, 121, 122, 48, 49, 50, 51, 52, 53, 54, 55, 56, 57 >>

\* "123456789ABCDEFGHJKLMNPQRSTUVWXYZabcdefghijkmnopqrstuvwxyz"
BASE58_CHARS ==
    << 49, 50, 51, 52, 53, 54, 55, 56, 57, 65, 66, 67, 68, 69, 70, 71, 72, 74,
       75, 76, 77, 78, 80, 81, 82, 83, 84, 85, 86, 87, 88, 89, 90, 97, 98, 99,
       100, 101, 102, 103, 104, 105, 106, 107, 109, 110, 111, 112, 113, 114,
       115, 116, 117, 118, 119, 120, 121, 122 >>

(***************************************************************************)
(* Texts.                                                                  *)
(***************************************************************************)
Range(s) == { s[i] : i \in 1..Len(s) }

Reverse(s) == [ i \in 1..Len(s) |-> s[Len(s) + 1 - i] ]

Repeat(x, n) == [ i \in 1..n |-> x ]

\* u8::to_ascii_lowercase: 'A'..'Z' move to 'a'..'z', every other byte stays.
ByteToAsciiLowercase(b) == IF b >= 65 /\ b <= 90 THEN b + 32 ELSE b

\* String::to_ascii_lowercase
ToAsciiLowercase(text) == [ i \in 1..Len(text) |-> ByteToAsciiLowercase(text[i]) ]

\* str::starts_with(&str)
StartsWith(text, pat) ==
    /\ Len(pat) <= Len(text)
    /\ \A i \in 1..Len(pat) : text[i] = pat[i]

\* str::ends_with(&str)
EndsWith(text, pat) ==
    /\ Len(pat) <= Len(text)
    /\ \A i \in 1..Len(pat) : text[Len(text) - Len(pat) + i] = pat[i]

\* Option<String>::as_deref().unwrap_or("")
UnwrapOrEmpty(opt) == IF opt = << >> THEN << >> ELSE opt[1]

\* Number of leading elements of s equal to x.
RECURSIVE LeadingCount(_, _)
LeadingCount(s, x) ==
    IF s = << >> \/ s[1] # x THEN 0 ELSE 1 + LeadingCount(Tail(s), x)

\* std::str::from_utf8: whether the bytes from position i on are well-formed UTF-8.
RECURSIVE Utf8WellFormed(_, _)
Utf8WellFormed(bytes, i) ==
    LET n == Len(bytes)
        b == bytes[i]
        Cont(j, lo, hi) == j <= n /\ bytes[j] >= lo /\ bytes[j] <= hi
    IN  IF i > n THEN TRUE
        ELSE IF b <= 127 THEN Utf8WellFormed(bytes, i + 1)
        ELSE IF b >= 194 /\ b <= 223
            THEN Cont(i + 1, 128, 191) /\ Utf8WellFormed(bytes, i + 2)
        ELSE IF b >= 224 /\ b <= 239
            THEN /\ Cont(i + 1, IF b = 224 THEN 160 ELSE 128, IF b = 237 THEN 159 ELSE 191)
                 /\ Cont(i + 2, 128, 191)
                 /\ Utf8WellFormed(bytes, i + 3)
        ELSE IF b >= 240 /\ b <= 244
            THEN /\ Cont(i + 1, IF b = 240 THEN 144 ELSE 128, IF b = 244 THEN 143 ELSE 191)
                 /\ Cont(i + 2, 128, 191)
                 /\ Cont(i + 3, 128, 191)
                 /\ Utf8WellFormed(bytes, i + 4)
        ELSE FALSE

\* std::str::from_utf8(&seed): Ok(the same bytes read as text) or Err.
FromUtf8(bytes) == [ ok |-> Utf8WellFormed(bytes, 1), text |-> bytes ]

(***************************************************************************)
(* Base58.                                                                 *)
(***************************************************************************)
\* One step of a radix conversion on a little-endian digit string:
\* digits * mul + carry, in the given radix.
RECURSIVE MulAdd(_, _, _, _)
MulAdd(digits, mul, carry, radix) ==
    IF digits = << >>
    THEN IF carry = 0 THEN << >>
         ELSE << carry % radix >> \o MulAdd(<< >>, mul, carry \div radix, radix)
    ELSE LET v == digits[1] * mul + carry
         IN  << v % radix >> \o MulAdd(Tail(digits), mul, v \div radix, radix)

\* The little-endian digits, in radix `to`, of the big-endian number `s` in radix `from`.
RECURSIVE Convert(_, _, _, _, _)
Convert(s, i, acc, from, to) ==
    IF i > Len(s) THEN acc
    ELSE Convert(s, i + 1, MulAdd(acc, from, s[i], to), from, to)

\* fd_bs58::encode_32 and Pubkey::to_string: the base58 text of 32 bytes;
\* every leading zero byte gives one '1'.
encode_32(bytes) ==
    LET digits == Reverse(Convert(bytes, 1, << >>, 256, 58))
    IN  Repeat(BASE58_CHARS[1], LeadingCount(bytes, 0))
            \o [ i \in 1..Len(digits) |-> BASE58_CHARS[digits[i] + 1] ]

\* The value of a base58 character.
Base58Index(c) == CHOOSE i \in 1..Len(BASE58_CHARS) : BASE58_CHARS[i] = c

\* bs58 decoding: the bytes of a base58 text; every leading '1' gives one zero byte.
Base58Decode(text) ==
    LET vals == [ i \in 1..Len(text) |-> Base58Index(text[i]) - 1 ]
    IN  Repeat(0, LeadingCount(text, BASE58_CHARS[1]))
            \o Reverse(Convert(vals, 1, << >>, 58, 256))

\* A mutant of PubkeyTryFrom: the decoded length is not checked.
PubkeyTryFrom_NoSizeCheck(text) ==
    IF \E i \in 1..Len(text) : text[i] \notin Range(BASE58_CHARS)
    THEN [ ok |-> FALSE, key |-> << >> ]
    ELSE [ ok |-> TRUE, key |-> Base58Decode(text) ]

\* Pubkey::try_from(&str): WrongSize for a text longer than 44 characters, Invalid
\* for a text that is not base58, WrongSize when the bytes are not exactly 32.
PubkeyTryFrom(text) ==
    IF Len(text) > MAX_BASE58_LEN THEN [ ok |-> FALSE, key |-> << >> ]
    ELSE IF \E i \in 1..Len(text) : text[i] \notin Range(BASE58_CHARS)
        THEN [ ok |-> FALSE, key |-> << >> ]
    ELSE LET bytes == Base58Decode(text)
         IN  IF Len(bytes) # PUBKEY_BYTES THEN [ ok |-> FALSE, key |-> << >> ]
             ELSE [ ok |-> TRUE, key |-> bytes ]

(***************************************************************************)
(* Keys, patterns and request texts the model draws its inputs from.       *)
(***************************************************************************)
\* "TokenkegQfeZyiNwAJbNbGKPFXCWuBvf9Ss623VQ5DA"
TOKEN_PROGRAM_ID_TEXT ==
    << 84, 111, 107, 101, 110, 107, 101, 103, 81, 102, 101, 90, 121, 105, 78,
       119, 65, 74, 98, 78, 98, 71, 75, 80, 70, 88, 67, 87, 117, 66, 118, 102,
       57, 83, 115, 54, 50, 51, 86, 81, 53, 68, 65 >>

\* Pubkey::default(): 32 zero bytes, "11111111111111111111111111111111".
PubkeyDefault == Repeat(0, PUBKEY_BYTES)

\* The key "SysvarRent111111111111111111111111111111111".
SysvarRent ==
    << 6, 167, 213, 23, 25, 44, 92, 81, 33, 140, 201, 76, 61, 74, 241, 127, 88,
       218, 238, 8, 155, 161, 253, 68, 227, 219, 217, 138, 0, 0, 0, 0 >>

\* AppState built by start_server: Pubkey::try_from("Tokenkeg...").unwrap().
AppState == [ token_program_id |-> PubkeyTryFrom(TOKEN_PROGRAM_ID_TEXT).key ]

\* The keys a call of grind_with_result is given as base and as owner.
BaseKeys == { PubkeyDefault, SysvarRent }

Owners == { AppState.token_program_id, PubkeyDefault }

\* Digests SHA-256 can deliver, one for each shape of text the patterns tell apart:
\* "LoMASi45ub7Qe4ZE36UT5G6cU4ud8Fhhe4deS4FLoop"
DigestLoLoop ==
    << 5, 18, 112, 216, 238, 17, 135, 224, 30, 132, 226, 220, 105, 247, 138,
       136, 245, 198, 213, 118, 45, 63, 230, 255, 91, 25, 36, 11, 11, 102, 118,
       139 >>

\* "Lx3cw9KTAb8dLcukC7edhDQ7cn5d4gEYkbUrMWeLooP"
DigestLxLooP ==
    << 5, 28, 70, 111, 120, 63, 169, 231, 96, 125, 106, 153, 203, 195, 118, 32,
       19, 197, 119, 229, 178, 230, 109, 52, 144, 136, 246, 149, 128, 76, 48,
       226 >>

\* "aWQLGsCmrG6dLaYyNoVKf58ZTBqNAYT3j5qcdsyLoop"
DigestAwLoop ==
    << 8, 149, 105, 118, 132, 99, 227, 89, 243, 187, 61, 27, 62, 72, 252, 130,
       120, 147, 205, 221, 20, 188, 214, 65, 23, 20, 227, 137, 196, 12, 13,
       75 >>

Digests == { DigestLoLoop, DigestLxLooP, DigestAwLoop }

\* Texts of patterns: "L", "l", "Loop", "loop", "0".
TextL == << 76 >>
TextLowerL == << 108 >>
TextLoop == << 76, 111, 111, 112 >>
TextLowerLoop == << 108, 111, 111, 112 >>
TextZero == << 48 >>

\* Option<String>: None and Some(text).
None == << >>
Some(text) == << text >>

Prefixes == { None, Some(TextL), Some(TextLowerL) }

Suffixes == { None, Some(TextLoop), Some(TextLowerLoop), Some(TextZero) }

\* Base texts of /generate requests that are keys ...
ValidBaseTexts == { encode_32(b) : b \in BaseKeys }

\* ... and that are not: "Loop" (base58 of 3 bytes) and "0OIl" (not base58).
InvalidBaseTexts == { TextLoop, << 48, 79, 73, 108 >> }

BaseTexts == ValidBaseTexts \cup InvalidBaseTexts

(***************************************************************************)
(* The random seed of one trial.                                           *)
(***************************************************************************)
Streams == 1..NumStreams

\* The i-th value (i = 0, 1, ...) that stream k delivers: rng.next_u32() >> (32 - 6).
RngDraw(k, i) == (61 * k + i * (k - 1)) % RNG_VALUES

\* sample_iter(&Alphanumeric).take(16) collected by from_fn: the first 16 accepted
\* values of the stream, each mapped through the character set; a value that is not
\* below RANGE is rejected and the next one is drawn.
RECURSIVE SampleFrom(_, _, _)
SampleFrom(k, i, acc) ==
    IF Len(acc) = SEED_LEN THEN acc
    ELSE LET var == RngDraw(k, i)
         IN  IF var < RANGE
             THEN SampleFrom(k, i + 1, Append(acc, GEN_ASCII_STR_CHARSET[var + 1]))
             ELSE SampleFrom(k, i + 1, acc)

SeedTable == [ k \in Streams |-> SampleFrom(k, 0, << >>) ]

SampleSeed(k) == SeedTable[k]

(***************************************************************************)
(* SHA-256.  A hash context is the sequence of the bytes it has absorbed;  *)
(* the digest is a function of that sequence alone.                        *)
(***************************************************************************)
Buckets == 0..(NumBuckets - 1)

\* sha2::Sha256::new()
Sha256New == << >>

\* Digest::chain_update
ChainUpdate(ctx, data) == ctx \o data

\* The class of a hash input: a position-weighted checksum of all its bytes.
RECURSIVE MixRange(_, _, _)
MixRange(bytes, lo, hi) ==
    IF lo > hi THEN 0
    ELSE IF lo = hi THEN ((bytes[lo] + 1) * (((lo * lo) % 17) + 1)) % 65521
    ELSE LET mid == (lo + hi) \div 2
         IN  (MixRange(bytes, lo, mid) + MixRange(bytes, mid + 1, hi)) % 65521

Checksum(bytes) == MixRange(bytes, 1, Len(bytes)) % NumBuckets

\* The hash inputs of the trials, base || seed || owner, and the class of each,
\* computed once.
TrialInputs ==
    { ChainUpdate(ChainUpdate(ChainUpdate(Sha256New, b), SampleSeed(k)), o) :
        b \in BaseKeys, k \in Streams, o \in Owners }

TrialInputClass == [ bytes \in TrialInputs |-> Checksum(bytes) ]

Mix(bytes) == IF bytes \in TrialInputs THEN TrialInputClass[bytes] ELSE Checksum(bytes)

\* The text of each digest, computed once.
DigestText == [ d \in Digests |-> encode_32(d) ]

\* fd_bs58::encode_32 applied to a digest.
EncodeDigest(bytes) == IF bytes \in Digests THEN DigestText[bytes] ELSE encode_32(bytes)

(***************************************************************************)
(* State.                                                                  *)
(***************************************************************************)
Reqs == 1..NumReqs

Workers == 1..NumWorkers

VARIABLES
    sha256,     \* the SHA-256 function: the digest of each class of hash inputs
    pc,         \* per request: "idle", "queued", "grinding", "returned", "done", "panicked"
    req,        \* per request: the route and the base text of GenerateRequest
    worker,     \* per request: the runtime worker that runs its handler, 0 for none
    resp,       \* per request: the response sent
    args,       \* per call of grind_with_result: its GrindArgs
    seed,       \* ... its local seed
    found,      \* ... its local found
    address,    \* ... its local address
    base_sha,   \* ... its local base_sha, the primed hash context
    count,      \* ... its local count
    checked,    \* ... out_str_target_check of its last trial
    misses,     \* ... the number of its trials that did not match
    logged,     \* ... the attempts it logged on completion, -1 before
    ret         \* ... the pair it returned

grindVars == << args, seed, found, address, base_sha, count, checked, misses, logged, ret >>

serverVars == << req, worker, resp >>

vars == << sha256, pc, req, worker, resp, args, seed, found, address, base_sha,
           count, checked, misses, logged, ret >>

NoArgs ==
    [ base |-> << >>, owner |-> << >>, prefix |-> None, suffix |-> None,
      case_insensitive |-> FALSE, logfile |-> None, num_cpus |-> 0 ]

NoReq == [ route |-> "none", base |-> << >> ]

NoResp == [ kind |-> "none", address |-> << >>, seed |-> << >>, error |-> "" ]

NoRet == [ seed |-> << >>, address |-> << >> ]

\* The arguments a call of grind_with_result may be given.
GrindArgsSet ==
    { [ base |-> b, owner |-> o, prefix |-> p, suffix |-> s,
        case_insensitive |-> ci, logfile |-> None, num_cpus |-> 0 ] :
        b \in BaseKeys, o \in Owners, p \in Prefixes, s \in Suffixes, ci \in BOOLEAN }

(***************************************************************************)
(* grind_with_result                                                       *)
(***************************************************************************)
\* finalize(): the digest of the bytes the context absorbed.
Finalize(ctx) == sha256[Mix(ctx)]

\* A mutant of CandidateBytes: the seed is fed to the hash after the owner.
CandidateBytes_OwnerFirst(ctx, sd, owner) ==
    Finalize(ChainUpdate(ChainUpdate(ctx, owner), sd))

\* base_sha.clone().chain_update(seed).chain_update(args.owner).finalize().into()
CandidateBytes(ctx, sd, owner) ==
    Finalize(ChainUpdate(ChainUpdate(ctx, sd), owner))

\* A mutant of TargetCheck: the text is lower-cased whatever case_insensitive is.
TargetCheck_AlwaysLower(pubkey, case_insensitive) == ToAsciiLowercase(pubkey)

\* A mutant of TargetCheck: the text is never lower-cased.
TargetCheck_NeverLower(pubkey, case_insensitive) == pubkey

\* out_str_target_check
TargetCheck(pubkey, case_insensitive) ==
    IF case_insensitive THEN ToAsciiLowercase(pubkey) ELSE pubkey

\* A mutant of Matches: || in place of &&.
Matches_Or(text, prefix, suffix) ==
    StartsWith(text, prefix) \/ EndsWith(text, suffix)

\* out_str_target_check.starts_with(prefix) && out_str_target_check.ends_with(suffix)
Matches(text, prefix, suffix) ==
    StartsWith(text, prefix) /\ EndsWith(text, suffix)

\* A mutant of NextCount: only the trials that did not match are counted.
NextCount_OnMiss(c, matched) == IF matched THEN c ELSE c + 1

\* count += 1, before the match is tested: every trial is counted.
NextCount(c, matched) == c + 1

\* The locals of grind_with_result before its loop, for call r with arguments a.
GrindEnter(r, a) ==
    /\ args' = [args EXCEPT ![r] = a]
    /\ seed' = [seed EXCEPT ![r] = Repeat(0, SEED_LEN)]
    /\ found' = [found EXCEPT ![r] = FALSE]
    /\ address' = [address EXCEPT ![r] = PubkeyDefault]
    /\ base_sha' = [base_sha EXCEPT ![r] = ChainUpdate(Sha256New, a.base)]
    /\ count' = [count EXCEPT ![r] = 0]
    /\ checked' = [checked EXCEPT ![r] = << >>]
    /\ misses' = [misses EXCEPT ![r] = 0]
    /\ UNCHANGED << logged, ret >>

\* One iteration of the loop of call r, its seed drawn from stream k; counted
\* tells whether the trial counter is still tracked.  Each local of the iteration
\* is bound to its value once.
LoopIteration(r, k, counted) ==
    LET prefix == UnwrapOrEmpty(args[r].prefix)
        suffix == UnwrapOrEmpty(args[r].suffix)
    IN  /\ pc[r] = "grinding"
        /\ ~found[r]
        /\ \E new_seed \in { SampleSeed(k) } :
           \E pubkey_bytes \in { CandidateBytes(base_sha[r], new_seed, args[r].owner) } :
           \E pubkey \in { EncodeDigest(pubkey_bytes) } :
           \E out_str_target_check \in { TargetCheck(pubkey, args[r].case_insensitive) } :
           \E matched \in { Matches(out_str_target_check, prefix, suffix) } :
              /\ seed' = [seed EXCEPT ![r] = new_seed]
              /\ checked' = [checked EXCEPT ![r] = out_str_target_check]
              /\ count' = [count EXCEPT ![r] = IF counted THEN NextCount(@, matched) ELSE @]
              /\ misses' = [misses EXCEPT ![r] = IF counted /\ ~matched THEN @ + 1 ELSE @]
              /\ address' = [address EXCEPT ![r] = IF matched THEN pubkey_bytes ELSE @]
              /\ found' = [found EXCEPT ![r] = matched]
        /\ UNCHANGED << sha256, pc, serverVars, args, base_sha, logged, ret >>

\* A trial of call r while its trial counter is within the bound.
Trial(r, k) ==
    /\ count[r] < MaxTrials
    /\ LoopIteration(r, k, TRUE)

\* A trial of call r whatever its trial counter is: past the bound, the counter
\* (telemetry, read by nothing in the loop) is no longer tracked.
TrialUnbounded(r, k) == LoopIteration(r, k, count[r] < MaxTrials)

\* After the loop: the log line, and the value returned (from_utf8(..).unwrap()).
GrindReturn(r) ==
    /\ pc[r] = "grinding"
    /\ found[r]
    /\ logged' = [logged EXCEPT ![r] = count[r]]
    /\ ret' = [ret EXCEPT ![r] =
                  IF FromUtf8(seed[r]).ok
                  THEN [ seed |-> FromUtf8(seed[r]).text, address |-> address[r] ]
                  ELSE NoRet]
    /\ UNCHANGED << sha256, args >>

\* A direct call of grind_with_result returns to its caller; the locals are kept
\* as they were at the return.
CallReturn(r) ==
    /\ GrindReturn(r)
    /\ pc' = [pc EXCEPT ![r] = IF FromUtf8(seed[r]).ok THEN "returned" ELSE "panicked"]
    /\ UNCHANGED << seed, found, address, base_sha, count, checked, misses >>
    /\ UNCHANGED serverVars

(***************************************************************************)
(* One call of grind_with_result with any arguments.                       *)
(***************************************************************************)
\* The slot of the call: the first one.
Call == CHOOSE r \in Reqs : \A q \in Reqs : r <= q

\* The call has run lines 53-63: the locals are set and the loop is about to start.
GrindInit ==
    /\ sha256 \in [Buckets -> Digests]
    /\ pc = [r \in Reqs |-> IF r = Call THEN "grinding" ELSE "idle"]
    /\ req = [r \in Reqs |-> NoReq]
    /\ worker = [r \in Reqs |-> 0]
    /\ resp = [r \in Reqs |-> NoResp]
    /\ \E a \in GrindArgsSet :
          args = [r \in Reqs |-> IF r = Call THEN a ELSE NoArgs]
    /\ seed = [r \in Reqs |-> Repeat(0, SEED_LEN)]
    /\ found = [r \in Reqs |-> FALSE]
    /\ address = [r \in Reqs |-> PubkeyDefault]
    /\ base_sha = [r \in Reqs |-> ChainUpdate(Sha256New, args[r].base)]
    /\ count = [r \in Reqs |-> 0]
    /\ checked = [r \in Reqs |-> << >>]
    /\ misses = [r \in Reqs |-> 0]
    /\ logged = [r \in Reqs |-> -1]
    /\ ret = [r \in Reqs |-> NoRet]

GrindNext ==
    \/ \E k \in Streams : Trial(Call, k)
    \/ CallReturn(Call)

GrindSpec == GrindInit /\ [][GrindNext]_vars

(***************************************************************************)
(* The server: the router of start_server and its two handlers, polled by  *)
(* the workers of the async runtime.                                       *)
(***************************************************************************)
Routes == { "health", "generate" }

\* Pubkey::try_from of each base text of the requests, computed once.
BaseTextParsed == [ text \in BaseTexts |-> PubkeyTryFrom(text) ]

\* Pubkey::try_from(req.base.as_str())
ParseBase(text) == IF text \in BaseTexts THEN BaseTextParsed[text] ELSE PubkeyTryFrom(text)

\* Whether no handler is running on worker w.
WorkerFree(w) == \A r \in Reqs : worker[r] # w

\* A mutant of GenerateArgs: the suffix is left unset.
GenerateArgs_NoSuffix(base, state) ==
    [ base |-> base, owner |-> state.token_program_id, prefix |-> None,
      suffix |-> None, case_insensitive |-> FALSE, logfile |-> None,
      num_cpus |-> 0 ]

\* The GrindArgs that generate_vanity_address builds.
GenerateArgs(base, state) ==
    [ base |-> base, owner |-> state.token_program_id, prefix |-> None,
      suffix |-> Some(TextLoop), case_insensitive |-> FALSE, logfile |-> None,
      num_cpus |-> 0 ]

\* A request arrives and is routed: GET /health, or POST /generate with a base text.
\* The requests are numbered in the order of their arrival.
Receive(r, route, text) ==
    /\ pc[r] = "idle"
    /\ \A q \in Reqs : q < r => pc[q] # "idle"
    /\ req' = [req EXCEPT ![r] = [ route |-> route, base |-> text ]]
    /\ pc' = [pc EXCEPT ![r] = "queued"]
    /\ UNCHANGED << sha256, worker, resp, grindVars >>

\* health_check, run to completion by worker w.
HealthCheck(r, w) ==
    /\ pc[r] = "queued"
    /\ req[r].route = "health"
    /\ WorkerFree(w)
    /\ resp' = [resp EXCEPT ![r] = [ NoResp EXCEPT !.kind = "health" ]]
    /\ pc' = [pc EXCEPT ![r] = "done"]
    /\ UNCHANGED << sha256, req, worker, grindVars >>

\* generate_vanity_address on worker w, up to the loop of grind_with_result: the
\* base is validated, and either the error is returned or the grind is entered,
\* on the same worker, with the arguments of lines 117-125.
GenerateStart(r, w) ==
    /\ pc[r] = "queued"
    /\ req[r].route = "generate"
    /\ WorkerFree(w)
    /\ IF ~ParseBase(req[r].base).ok
       THEN /\ resp' = [resp EXCEPT ![r] =
                           [ NoResp EXCEPT !.kind = "error",
                                           !.error = "Invalid base address" ]]
            /\ pc' = [pc EXCEPT ![r] = "done"]
            /\ UNCHANGED << worker, grindVars >>
       ELSE /\ GrindEnter(r, GenerateArgs(ParseBase(req[r].base).key, AppState))
            /\ pc' = [pc EXCEPT ![r] = "grinding"]
            /\ worker' = [worker EXCEPT ![r] = w]
            /\ UNCHANGED resp
    /\ UNCHANGED << sha256, req >>

\* generate_vanity_address after the loop: grind_with_result returns, its locals
\* are gone, and the response is built from its pair; the worker is free again.
GenerateFinish(r) ==
    /\ GrindReturn(r)
    /\ seed' = [seed EXCEPT ![r] = Repeat(0, SEED_LEN)]
    /\ found' = [found EXCEPT ![r] = FALSE]
    /\ address' = [address EXCEPT ![r] = PubkeyDefault]
    /\ base_sha' = [base_sha EXCEPT ![r] = Sha256New]
    /\ count' = [count EXCEPT ![r] = 0]
    /\ checked' = [checked EXCEPT ![r] = << >>]
    /\ misses' = [misses EXCEPT ![r] = 0]
    /\ IF FromUtf8(seed[r]).ok
       THEN /\ resp' = [resp EXCEPT ![r] =
                           [ NoResp EXCEPT !.kind = "generated",
                                           !.address = EncodeDigest(ret'[r].address),
                                           !.seed = ret'[r].seed ]]
            /\ pc' = [pc EXCEPT ![r] = "done"]
       ELSE /\ pc' = [pc EXCEPT ![r] = "panicked"]
            /\ UNCHANGED resp
    /\ worker' = [worker EXCEPT ![r] = 0]
    /\ UNCHANGED req

\* start_server has built AppState and the router; no request has arrived.
Init ==
    /\ sha256 \in [Buckets -> Digests]
    /\ pc = [r \in Reqs |-> "idle"]
    /\ req = [r \in Reqs |-> NoReq]
    /\ worker = [r \in Reqs |-> 0]
    /\ resp = [r \in Reqs |-> NoResp]
    /\ args = [r \in Reqs |-> NoArgs]
    /\ seed = [r \in Reqs |-> Repeat(0, SEED_LEN)]
    /\ found = [r \in Reqs |-> FALSE]
    /\ address = [r \in Reqs |-> PubkeyDefault]
    /\ base_sha = [r \in Reqs |-> Sha256New]
    /\ count = [r \in Reqs |-> 0]
    /\ checked = [r \in Reqs |-> << >>]
    /\ misses = [r \in Reqs |-> 0]
    /\ logged = [r \in Reqs |-> -1]
    /\ ret = [r \in Reqs |-> NoRet]

Next ==
    \/ \E r \in Reqs : Receive(r, "health", << >>)
    \/ \E r \in Reqs, text \in BaseTexts : Receive(r, "generate", text)
    \/ \E r \in Reqs, w \in Workers : HealthCheck(r, w)
    \/ \E r \in Reqs, w \in Workers : GenerateStart(r, w)
    \/ \E r \in Reqs, k \in Streams : Trial(r, k)
    \/ \E r \in Reqs : GenerateFinish(r)

Spec == Init /\ [][Next]_vars

\* The specification of one call under fair sampling: every stream keeps being
\* drawn (thread_rng() delivers every seed again and again), and a loop whose
\* condition is false is left.  Its calls are those whose seeds reach every digest,
\* as the 62^16 seeds of the program reach every shape of text.
FairGrindInit ==
    /\ GrindInit
    /\ \A d \in Digests : \E k \in Streams :
          CandidateBytes(base_sha[Call], SampleSeed(k), args[Call].owner) = d

FairGrindNext ==
    \/ \E k \in Streams : TrialUnbounded(Call, k)
    \/ CallReturn(Call)

FairGrindSpec ==
    /\ FairGrindInit
    /\ [][FairGrindNext]_vars
    /\ \A k \in Streams : WF_vars(TrialUnbounded(Call, k))
    /\ WF_vars(CallReturn(Call))

(***************************************************************************)
(* Properties.                                                             *)
(***************************************************************************)
\* The 32 bytes that "TokenkegQfeZyiNwAJbNbGKPFXCWuBvf9Ss623VQ5DA" encodes.
TokenProgramKey ==
    << 6, 221, 246, 225, 215, 101, 161, 147, 217, 203, 225, 70, 206, 235, 121,
       172, 28, 180, 133, 237, 95, 91, 55, 145, 58, 140, 245, 133, 126, 255, 0,
       169 >>

\* The base58 text of each base key, computed once.
BaseText == [ b \in BaseKeys |-> encode_32(b) ]

\* The bytes of the ASCII letters and digits.
AlnumBytes == (48..57) \cup (65..90) \cup (97..122)

\* The text a pattern is compared with: the base58 text of the key, lower-cased
\* first when case_insensitive is set.
ComparedText(key, a) ==
    IF a.case_insensitive THEN ToAsciiLowercase(EncodeDigest(key)) ELSE EncodeDigest(key)

\* Whether the key's compared text starts with the prefix and ends with the suffix.
KeyFits(key, a) ==
    /\ StartsWith(ComparedText(key, a), UnwrapOrEmpty(a.prefix))
    /\ EndsWith(ComparedText(key, a), UnwrapOrEmpty(a.suffix))

\* The digest of base || seed || owner.
DigestOf(base, sd, owner) == sha256[Mix(base \o sd \o owner)]

\* The characters of the patterns of a.
PatternBytes(a) == Range(UnwrapOrEmpty(a.prefix)) \cup Range(UnwrapOrEmpty(a.suffix))

\* The characters a compared text can hold.
ComparedBytes(a) ==
    IF a.case_insensitive
    THEN { ByteToAsciiLowercase(b) : b \in Range(BASE58_CHARS) }
    ELSE Range(BASE58_CHARS)

\* Whether some seed the generator can deliver gives call r a matching key.
CanMatch(r) ==
    \E k \in Streams : KeyFits(DigestOf(args[r].base, SampleSeed(k), args[r].owner), args[r])

\* C1: whenever the loop has exited (found) and whenever grind_with_result has
\* returned, the base58 text of the address, lower-cased when case_insensitive is
\* set, starts with the prefix and ends with the suffix (an absent one is empty):
\* the loop never exits on a trial where only one of the two holds.
C1_ReturnedAddressMatches ==
    \A r \in Reqs :
        /\ found[r] => KeyFits(address[r], args[r])
        /\ pc[r] = "returned" => KeyFits(ret[r].address, args[r])

\* C1 witness: a call with both a prefix and a suffix has returned after at least
\* one trial that did not match.
C1_Witness ==
    /\ pc[Call] = "returned"
    /\ args[Call].prefix = Some(TextL)
    /\ args[Call].suffix = Some(TextLoop)
    /\ misses[Call] >= 1

\* C2: the returned address is the 32-byte digest of base || returned seed || owner,
\* it is the local address as stored (not folded, not cut), and the primed context
\* base_sha still holds exactly the base.
C2_SeedDerivesAddress ==
    \A r \in Reqs :
        /\ pc[r] = "grinding" => base_sha[r] = args[r].base
        /\ pc[r] = "returned" =>
              /\ ret[r].address = DigestOf(args[r].base, ret[r].seed, args[r].owner)
              /\ ret[r].address = address[r]
              /\ Len(ret[r].address) = PUBKEY_BYTES
              /\ ret[r].seed = seed[r]

\* C2 witness: a call has returned after two trials that did not match.
C2_Witness ==
    /\ pc[Call] = "returned"
    /\ misses[Call] >= 2
    /\ args[Call].base = SysvarRent

\* C3 as claimed: every call of grind_with_result eventually returns.
C3_EveryCallReturns == <>(pc[Call] = "returned")

\* C3, amended: under fair sampling, a call for which some seed gives a matching
\* key eventually returns, and what it returns is a matching key.
C3_ReturnsWhenReachable ==
    CanMatch(Call) ~> (pc[Call] = "returned" /\ KeyFits(ret[Call].address, args[Call]))

\* C3 witness: a call has returned after a trial that did not match.
C3_Witness ==
    /\ pc[Call] = "returned"
    /\ misses[Call] >= 1
    /\ args[Call].suffix = Some(TextLoop)

\* C4: a /generate request whose base text is not a 32-byte key gets the
\* "Invalid base address" response and never enters grind_with_result; the grinder
\* is entered only with the key that the request's base text encodes.
C4_InvalidBaseNeverGrinds ==
    \A r \in Reqs :
        /\ (req[r].base \in InvalidBaseTexts /\ pc[r] \notin { "idle", "queued" }) =>
              /\ pc[r] = "done"
              /\ resp[r].kind = "error"
              /\ resp[r].error = "Invalid base address"
              /\ args[r] = NoArgs
        /\ args[r] # NoArgs =>
              /\ req[r].base \in ValidBaseTexts
              /\ args[r].base \in BaseKeys
              /\ Len(args[r].base) = PUBKEY_BYTES
              /\ BaseText[args[r].base] = req[r].base

\* C4 witness: a request whose base text decodes to 3 bytes was answered with the error.
C4_Witness ==
    \E r \in Reqs :
        /\ pc[r] = "done"
        /\ req[r].base = TextLoop
        /\ resp[r].kind = "error"

\* C5: every successful /generate response comes from a grind with owner = the token
\* program id, no prefix, suffix "Loop" and case-sensitive comparison; its address
\* ends with "Loop" and is the text of the digest of base || seed || owner for the
\* request's base and the response's seed.
C5_ResponseEndsWithLoop ==
    \A r \in Reqs :
        resp[r].kind = "generated" =>
            /\ args[r].owner = TokenProgramKey
            /\ args[r].prefix = None
            /\ args[r].suffix = Some(TextLoop)
            /\ ~args[r].case_insensitive
            /\ EndsWith(resp[r].address, TextLoop)
            /\ \E b \in BaseKeys :
                  /\ BaseText[b] = req[r].base
                  /\ resp[r].address =
                        EncodeDigest(DigestOf(b, resp[r].seed, TokenProgramKey))

\* C5 witness: a response was sent after a trial that did not match.
C5_Witness ==
    \E r \in Reqs :
        /\ resp[r].kind = "generated"
        /\ logged[r] >= 2
        /\ req[r].base = BaseText[SysvarRent]

\* C6: every seed a trial has sampled, and the seed returned, has 16 bytes, each an
\* ASCII letter or digit, and its conversion to text does not fail.
C6_SeedAlphanumeric ==
    \A r \in Reqs :
        /\ pc[r] # "panicked"
        /\ count[r] > 0 =>
              /\ Len(seed[r]) = 16
              /\ Range(seed[r]) \subseteq AlnumBytes
              /\ FromUtf8(seed[r]).ok
        /\ pc[r] = "returned" =>
              /\ Len(ret[r].seed) = 16
              /\ Range(ret[r].seed) \subseteq AlnumBytes

\* C6 witness: a returned seed holds '9' followed by 'A': the draws 62 and 63
\* between them were rejected.
C6_Witness ==
    /\ pc[Call] = "returned"
    /\ \E i \in 1..15 : ret[Call].seed[i] = 57 /\ ret[Call].seed[i + 1] = 65

\* C7 as claimed: a call whose prefix or suffix holds a character outside the base58
\* alphabet never finds a match.
C7_OutsideAlphabetNeverFound ==
    \A r \in Reqs :
        (PatternBytes(args[r]) \ Range(BASE58_CHARS) # {}) => ~found[r]

\* C7, amended: a call whose prefix or suffix holds a character that no compared
\* text can hold (outside the base58 alphabet when the comparison is case-sensitive,
\* outside the lower-cased base58 alphabet when it is case-insensitive) is started
\* all the same, never finds a match and never leaves the loop.
C7_UnreachableNeverFound ==
    \A r \in Reqs :
        (PatternBytes(args[r]) \ ComparedBytes(args[r]) # {}) =>
            /\ ~found[r]
            /\ pc[r] = "grinding"

\* C7 witness: a call with suffix "0" has sampled two seeds and is still searching.
C7_Witness ==
    /\ args[Call].suffix = Some(TextZero)
    /\ count[Call] >= 2
    /\ ~found[Call]
    /\ pc[Call] = "grinding"

\* C8 as claimed: a grind never runs on a worker of the runtime that serves the
\* requests, so a queued /health request always has a free worker.
C8_GrindOffRuntime ==
    \A r \in Reqs :
        /\ pc[r] = "grinding" => worker[r] \notin Workers
        /\ (pc[r] = "queued" /\ req[r].route = "health") => \E w \in Workers : WorkerFree(w)

\* C9: with case_insensitive set, a call whose prefix or suffix holds an upper-case
\* letter never finds a match and never returns.
C9_UpperCasePatternNeverFound ==
    \A r \in Reqs :
        (args[r].case_insensitive /\ PatternBytes(args[r]) \cap (65..90) # {}) =>
            /\ ~found[r]
            /\ pc[r] # "returned"

\* C9 witness: a case-insensitive call with suffix "Loop" has compared a text that
\* ends with "loop", the lower-cased suffix, and goes on searching.
C9_Witness ==
    /\ args[Call].case_insensitive
    /\ args[Call].suffix = Some(TextLoop)
    /\ args[Call].prefix = None
    /\ count[Call] >= 1
    /\ EndsWith(checked[Call], ToAsciiLowercase(TextLoop))
    /\ ~found[Call]

\* C10: the trial counter is the number of loop iterations so far (the trials that
\* did not match, plus one once a trial matched), and the count logged on return is
\* that counter: at least 1, and the number of failed trials plus one.
C10_CountIsTrials ==
    \A r \in Reqs :
        /\ count[r] = misses[r] + (IF found[r] THEN 1 ELSE 0)
        /\ pc[r] = "returned" =>
              /\ logged[r] = count[r]
              /\ logged[r] >= 1
              /\ logged[r] = misses[r] + 1

\* C10 witness: a call returned on its third trial and logged 3.
C10_Witness ==
    /\ pc[Call] = "returned"
    /\ misses[Call] = 2
    /\ logged[Call] = 3

=============================================================================
